---- MODULE Spec2Model ----
(***************************************************************************)
(* State-machine model of the Cppcheck GUI (src/src/main.rs).              *)
(*                                                                         *)
(* The program is a single-threaded GTK application: build_ui constructs   *)
(* the widgets and probes the external tools once, and afterwards every    *)
(* button click runs its handler to completion on the UI thread.  The      *)
(* model has one action per handler.  The outcomes of the outside world    *)
(* (does a subprocess launch, what does it print, does a write succeed,    *)
(* does the browser create the PDF, does the default handler open a URI)   *)
(* are the inputs of the handlers and are chosen with \E.                  *)
(***************************************************************************)
EXTENDS Integers, Sequences, FiniteSets, TLC

(* Bound of the model: how many Run/HTML/PDF/Install handler bodies may    *)
(* execute in one behaviour (each of them appends to the text buffer).     *)
MaxClicks == 2

(***************************************************************************)
(* Option<T> is a sequence of length at most one.                          *)
(***************************************************************************)
None == <<>>
Some(v) == <<v>>

(***************************************************************************)
(* The outside world's input sets.                                         *)
(***************************************************************************)
(* Executables looked up with `which` at startup. *)
Tools == {"cppcheck", "cppcheck-htmlreport", "google-chrome", "chromium-browser"}

(* What a `which <tool>` lookup can do: locate the tool (exit 0), report   *)
(* that it is not on the search path (exit 1), or fail to be spawned.      *)
LookupOutcomes == {"found", "notfound", "error"}

(* Directories the file chooser can return (OS paths).  The second one     *)
(* has a name that is not valid UTF-8 (byte E9).                           *)
DialogPaths == {"/tmp/proj", "/srv/caf<E9>"}

(* Responses a FileChooserDialog can emit. *)
Responses == {"Accept", "Cancel", "DeleteEvent"}

(* Captured <<stdout, stderr>> of cppcheck and of apt-get: a silent        *)
(* process, and one that writes to both channels.                          *)
Captured == {<<"", "">>,
             <<"Checking a.c ...\n", "[a.c:3]: (warning) Unused variable: x\n">>}

(* The environments the program is started in: what `which` does for each *)
(* tool.  A partial installation (cppcheck and chromium-browser are        *)
(* installed, cppcheck-htmlreport and google-chrome are not); `which`      *)
(* itself cannot be spawned; only the google-chrome lookup cannot be       *)
(* spawned.                                                                *)
Environments ==
    { [t \in Tools |-> IF t \in {"cppcheck", "chromium-browser"}
                       THEN "found" ELSE "notfound"],
      [t \in Tools |-> "error"],
      [t \in Tools |-> IF t = "google-chrome" THEN "error" ELSE "found"] }

(* Files a project directory may hold before the program starts. *)
Preexisting == {"/tmp/proj/report.pdf"}

(* stderr of `cppcheck --xml`, the structured report. *)
XmlSet == {"<results version=\"2\"/>\n"}

(* Display text of a GLib error returned by launch_default_for_uri. *)
GioErrors == {"Operation not supported"}

(***************************************************************************)
(* Pure helpers of the code.                                               *)
(***************************************************************************)
(* Command::new("which").arg(u).output().is_ok(): output() is Ok whenever  *)
(* the `which` process was spawned and waited for, whatever it exits with. *)
which_is_ok(outcome) == outcome # "error"

(* Command::new("which").arg(u).output().is_err() *)
which_is_err(outcome) == outcome = "error"

(* html_ok, lines 77-80 *)
html_ok_of(l) == which_is_ok(l["cppcheck-htmlreport"])

(* pdf_tool, lines 81-91; the chromium lookup runs only if the first failed *)
pdf_tool_of(l) ==
    IF which_is_ok(l["google-chrome"]) THEN Some("google-chrome")
    ELSE IF which_is_ok(l["chromium-browser"]) THEN Some("chromium-browser")
    ELSE None

(* required, line 115 *)
required == <<"cppcheck", "cppcheck-htmlreport", "google-chrome">>

(* missing, lines 116-120 *)
missing_of(l) == SelectSeq(required, LAMBDA u : which_is_err(l[u]))

(* Path::to_string_lossy: bytes that are not valid UTF-8 become U+FFFD. *)
to_string_lossy(p) == IF p = "/srv/caf<E9>" THEN "/srv/caf<U+FFFD>" ELSE p

(* Path::new(path).file_name().and_then(|n| n.to_str()).unwrap_or("project") *)
project_name_of(path) ==
    CASE path = "/tmp/proj" -> "proj"
      [] path = "/srv/caf<U+FFFD>" -> "caf<U+FFFD>"
      [] OTHER -> "project"

(* append_text: insert text at the end of the buffer.  The buffer is kept  *)
(* as the sequence of inserted chunks; inserting "" changes nothing.       *)
append_text(buf, text) == IF text = "" THEN buf ELSE Append(buf, text)

(* slice::join *)
RECURSIVE join(_, _)
join(seq, sep) ==
    IF seq = <<>> THEN ""
    ELSE IF Len(seq) = 1 THEN seq[1]
    ELSE seq[1] \o sep \o join(Tail(seq), sep)

(* A mutant of levels_of: the pushes in another order. *)
levels_of_reordered(w, s, p) ==
    (IF s THEN <<"style">> ELSE <<>>)
    \o (IF w THEN <<"warning">> ELSE <<>>)
    \o (IF p THEN <<"performance">> ELSE <<>>)

(* levels, lines 193-202 *)
levels_of(w, s, p) ==
    (IF w THEN <<"warning">> ELSE <<>>)
    \o (IF s THEN <<"style">> ELSE <<>>)
    \o (IF p THEN <<"performance">> ELSE <<>>)

(* The arguments of the cppcheck command of the Run action, lines 192-206 *)
run_argv(w, s, p, path) ==
    LET levels == levels_of(w, s, p) IN
    <<"cppcheck">>
    \o (IF levels # <<>> THEN <<"--enable=" \o join(levels, ",")>> ELSE <<>>)
    \o <<path>>

(* Things a handler does to the outside world, in the order it does them:  *)
(* "spawn" (Command::output), "write" (fs::write), "exists" (Path::exists),*)
(* "open" (AppInfo::launch_default_for_uri); "child_wrote" records that    *)
(* the spawned process created the named file.                             *)
Effect(kind, argv, ok) == [kind |-> kind, argv |-> argv, ok |-> ok]

VARIABLES
    lookup,              \* the environment: outcome of `which <tool>`
    files,               \* the environment: files that exist
    html_ok,             \* line 77
    pdf_tool,            \* line 81
    missing,             \* line 116
    install_sensitive,   \* install_btn sensitivity (the button exists iff missing # <<>>)
    project_path,        \* line 38
    select_label,        \* label of select_btn
    dialog_open,         \* a modal FileChooserDialog is showing
    chk_error, chk_warning, chk_style, chk_performance,
    btn_html_sensitive, btn_pdf_sensitive,
    progress,            \* ProgressBar fraction: 0 (0.0) or 1 (1.0)
    buffer,              \* the log TextBuffer, as the sequence of inserted chunks
    clicks,              \* handler bodies executed so far
    last_handler,        \* the handler that ran last
    effects,             \* what it did to the outside world
    log_mark,            \* Len(buffer) when it started
    confirmed,           \* the directory the user confirmed in the dialog, if that came last
    run_succeeded,       \* some Run action's cppcheck launched and completed
    html_succeeded       \* some HTML action ran its pipeline to the end

vars == <<lookup, files, html_ok, pdf_tool, missing, install_sensitive,
          project_path, select_label, dialog_open,
          chk_error, chk_warning, chk_style, chk_performance,
          btn_html_sensitive, btn_pdf_sensitive, progress, buffer, clicks,
          last_handler, effects, log_mark, confirmed,
          run_succeeded, html_succeeded>>

env_vars == <<lookup, html_ok, pdf_tool, missing>>
chk_vars == <<chk_error, chk_warning, chk_style, chk_performance>>
btn_vars == <<btn_html_sensitive, btn_pdf_sensitive>>
hist_vars == <<run_succeeded, html_succeeded>>

(* The chunks the last handler appended to the buffer. *)
appended == SubSeq(buffer, log_mark + 1, Len(buffer))

(***************************************************************************)
(* build_ui up to window.present(), lines 28-144.                          *)
(***************************************************************************)
Init ==
    /\ lookup \in Environments
    /\ files \in SUBSET Preexisting
    /\ html_ok = html_ok_of(lookup)
    /\ pdf_tool = pdf_tool_of(lookup)
    /\ missing = missing_of(lookup)
    /\ install_sensitive = TRUE
    /\ project_path = None
    /\ select_label = "Select Project Directory"
    /\ dialog_open = FALSE
    /\ chk_error = TRUE
    /\ chk_warning = TRUE
    /\ chk_style = FALSE
    /\ chk_performance = FALSE
    /\ btn_html_sensitive = FALSE
    /\ btn_pdf_sensitive = FALSE
    /\ progress = 0
    /\ buffer = <<>>
    /\ clicks = 0
    /\ last_handler = "build_ui"
    /\ effects = <<>>
    /\ log_mark = 0
    /\ confirmed = None
    /\ run_succeeded = FALSE
    /\ html_succeeded = FALSE

(* What every handler records about itself; chosen is the directory the   *)
(* user confirmed in the dialog the handler answers (None for a dialog     *)
(* that was cancelled or closed, and for the handlers of the main window). *)
ObserveWith(name, eff, chosen) ==
    /\ last_handler' = name
    /\ effects' = eff
    /\ log_mark' = Len(buffer)
    /\ confirmed' = chosen

Observe(name, eff) == ObserveWith(name, eff, None)


(***************************************************************************)
(* The severity check buttons, lines 55-62: the user toggles them.         *)
(***************************************************************************)
ToggleError ==
    /\ ~dialog_open
    /\ chk_error' = ~chk_error
    /\ Observe("toggle", <<>>)
    /\ UNCHANGED <<env_vars, files, install_sensitive, project_path, select_label,
                   dialog_open, chk_warning, chk_style, chk_performance,
                   btn_vars, progress, buffer, clicks, hist_vars>>

ToggleWarning ==
    /\ ~dialog_open
    /\ chk_warning' = ~chk_warning
    /\ Observe("toggle", <<>>)
    /\ UNCHANGED <<env_vars, files, install_sensitive, project_path, select_label,
                   dialog_open, chk_error, chk_style, chk_performance,
                   btn_vars, progress, buffer, clicks, hist_vars>>

ToggleStyle ==
    /\ ~dialog_open
    /\ chk_style' = ~chk_style
    /\ Observe("toggle", <<>>)
    /\ UNCHANGED <<env_vars, files, install_sensitive, project_path, select_label,
                   dialog_open, chk_error, chk_warning, chk_performance,
                   btn_vars, progress, buffer, clicks, hist_vars>>

TogglePerformance ==
    /\ ~dialog_open
    /\ chk_performance' = ~chk_performance
    /\ Observe("toggle", <<>>)
    /\ UNCHANGED <<env_vars, files, install_sensitive, project_path, select_label,
                   dialog_open, chk_error, chk_warning, chk_style,
                   btn_vars, progress, buffer, clicks, hist_vars>>

(***************************************************************************)
(* select_btn clicked, lines 151-175: a modal dialog is built and shown.   *)
(* While it shows, the main window takes no input.                         *)
(***************************************************************************)
SelectClicked ==
    /\ ~dialog_open
    /\ dialog_open' = TRUE
    /\ Observe("select", <<>>)
    /\ UNCHANGED <<env_vars, files, install_sensitive, project_path, select_label,
                   chk_vars, btn_vars, progress, buffer, clicks, hist_vars>>

(* r == ResponseType::Accept, line 165 *)
response_accepted(r) == r = "Accept"

(* The dialog's response handler, lines 164-173.  file is                  *)
(* d.file().and_then(|f| f.path()): the chosen directory, if any.          *)
(* StorePath is its lines 165-171, the rest is d.close().                  *)
StorePath(r, file) ==
    IF response_accepted(r) /\ file # None
    THEN LET s == to_string_lossy(file[1]) IN
         /\ project_path' = Some(s)
         /\ select_label' = s
    ELSE UNCHANGED <<project_path, select_label>>

DialogResponseWith(r, file) ==
    /\ dialog_open
    /\ StorePath(r, file)
    /\ ObserveWith("response", <<>>, IF r = "Accept" THEN file ELSE None)
    /\ dialog_open' = FALSE
    /\ UNCHANGED <<env_vars, files, install_sensitive, chk_vars, btn_vars,
                   progress, buffer, clicks, hist_vars>>

(* What the dialog can hand to its response handler. *)
DialogFiles == {None} \cup {Some(p) : p \in DialogPaths}

DialogResponse == \E r \in Responses, file \in DialogFiles : DialogResponseWith(r, file)

(***************************************************************************)
(* btn_run clicked, lines 188-215.                                          *)
(***************************************************************************)
(* The body under `if let Some(ref path)`, lines 190-213.  launched: did   *)
(* cmd.output() return Ok; out, err: the captured stdout and stderr.       *)
RunBody(path, launched, out, err) ==
    LET argv == run_argv(chk_warning, chk_style, chk_performance, path)
        b0 == append_text(buffer, "Running cppcheck on " \o path \o "\n")
    IN
    /\ clicks < MaxClicks
    /\ clicks' = clicks + 1
    /\ buffer' = IF launched THEN append_text(append_text(b0, out), err) ELSE b0
    /\ progress' = 1
    /\ btn_html_sensitive' = TRUE
    /\ btn_pdf_sensitive' = TRUE
    /\ run_succeeded' = (run_succeeded \/ launched)
    /\ Observe("run", <<Effect("spawn", argv, launched)>>)
    /\ UNCHANGED <<env_vars, files, install_sensitive, project_path, select_label,
                   dialog_open, chk_vars, html_succeeded>>

(* A handler that finds no project path does nothing. *)
NoPath(name) ==
    /\ Observe(name, <<>>)
    /\ UNCHANGED <<env_vars, files, install_sensitive, project_path, select_label,
                   dialog_open, chk_vars, btn_vars, progress, buffer, clicks,
                   hist_vars>>

(* A mutant of RunClicked: the path is not required (unwrap_or_default). *)
RunClickedUnguarded ==
    /\ ~dialog_open
    /\ \E launched \in BOOLEAN, cap \in Captured :
          RunBody(IF project_path = None THEN "" ELSE project_path[1],
                  launched, cap[1], cap[2])

RunClicked ==
    /\ ~dialog_open
    /\ IF project_path # None
       THEN \E launched \in BOOLEAN, cap \in Captured :
               RunBody(project_path[1], launched, cap[1], cap[2])
       ELSE NoPath("run")

(***************************************************************************)
(* btn_html clicked, lines 222-271.                                         *)
(***************************************************************************)
(* A mutant of write_failed: the result of the write is ignored. *)
write_failed_ignored(write_ok) == FALSE

(* fs::write(&xml_file, &out.stderr).is_err(), line 234 *)
write_failed(write_ok) == ~write_ok

(* The body under `if let Some(ref path)`, lines 224-269, as a function of *)
(* what the outside world does: the buffer, the effects and the files it   *)
(* leaves, and whether it reached the end of the pipeline.  fs::write is   *)
(* File::create followed by write_all: xml_created says whether the file   *)
(* was created (it exists afterwards even when the write then fails, as on *)
(* a full disk), write_ok whether fs::write returned Ok.                   *)
HtmlOutcome(path, buf, fs, xml_launched, xml, xml_created, write_ok, render_launched, opened, e) ==
    LET b0 == append_text(buf, "Generating HTML report for " \o path \o "\n")
        project_name == project_name_of(path)
        xml_file == path \o "/cppcheck.xml"
        report_dir == path \o "/html_report"
        index_uri == "file://" \o report_dir \o "/index.html"
        e_xml == Effect("spawn", <<"cppcheck", "--xml", "--xml-version=2", path>>,
                        xml_launched)
        e_write == Effect("write", <<xml_file, xml>>, write_ok)
        e_render == Effect("spawn",
                           <<"cppcheck-htmlreport", "--file", xml_file,
                             "--report-dir", report_dir, "--source-dir", path,
                             "--title", "Cppcheck report - " \o project_name>>,
                           render_launched)
        e_open == Effect("open", <<index_uri>>, opened)
        fs1 == IF xml_created THEN fs \cup {xml_file} ELSE fs
        b_saved == append_text(b0, "HTML report saved to " \o path \o "/html_report\n")
    IN
    IF ~xml_launched
    THEN [buffer |-> append_text(b0, "Error running cppcheck --xml\n"),
          effects |-> <<e_xml>>, files |-> fs, done |-> FALSE]
    ELSE IF write_failed(write_ok)
    THEN [buffer |-> append_text(b0, "Failed to write XML report\n"),
          effects |-> <<e_xml, e_write>>, files |-> fs1, done |-> FALSE]
    ELSE IF ~render_launched
    THEN [buffer |-> append_text(b0, "Error generating HTML report\n"),
          effects |-> <<e_xml, e_write, e_render>>, files |-> fs1, done |-> FALSE]
    ELSE [buffer |-> IF opened THEN b_saved
                     ELSE append_text(b_saved,
                                      "Failed to open HTML report: " \o e \o "\n"),
          effects |-> <<e_xml, e_write, e_render, e_open>>, files |-> fs1,
          done |-> TRUE]

HtmlClicked ==
    /\ ~dialog_open
    /\ btn_html_sensitive
    /\ IF project_path # None
       THEN /\ clicks < MaxClicks
            /\ clicks' = clicks + 1
            /\ \E xml_launched \in BOOLEAN, xml \in XmlSet, xml_created \in BOOLEAN,
                  write_ok \in BOOLEAN, render_launched \in BOOLEAN,
                  opened \in BOOLEAN, e \in GioErrors :
                 /\ (write_ok => xml_created)
                 /\ LET o == HtmlOutcome(project_path[1], buffer, files, xml_launched,
                                      xml, xml_created, write_ok, render_launched,
                                      opened, e)
                    IN
                    /\ buffer' = o.buffer
                    /\ files' = o.files
                    /\ html_succeeded' = (html_succeeded \/ o.done)
                    /\ Observe("html", o.effects)
            /\ UNCHANGED <<env_vars, install_sensitive, project_path, select_label,
                           dialog_open, chk_vars, btn_vars, progress, run_succeeded>>
       ELSE NoPath("html")

(***************************************************************************)
(* btn_pdf clicked, lines 279-317.                                          *)
(***************************************************************************)
(* A mutant of no_pdf_tool: the None arm is never taken. *)
no_pdf_tool_never(tool) == FALSE

(* `if let Some(ref tool) = pdf_tool_clone ... else`, lines 285 and 313 *)
no_pdf_tool(tool) == tool = None

(* The body under `if let Some(ref path)`, lines 281-315.  launched: did   *)
(* the browser's output() return Ok; created: did the browser create the   *)
(* PDF file before it returned.                                            *)
PdfOutcome(path, tool, buf, fs, launched, created, opened, e) ==
    LET b0 == append_text(buf, "Generating PDF report for " \o path \o "\n")
        report_dir == path \o "/html_report"
        index_uri == "file://" \o report_dir \o "/index.html"
        pdf_file == path \o "/report.pdf"
        pdf_uri == "file://" \o pdf_file
        e_spawn == Effect("spawn",
                          tool \o <<"--headless", "--disable-gpu",
                                    "--print-to-pdf=" \o pdf_file, index_uri>>,
                          launched)
        e_child == IF created THEN <<Effect("child_wrote", <<pdf_file>>, TRUE)>>
                   ELSE <<>>
        fs1 == IF created THEN fs \cup {pdf_file} ELSE fs
        exists == pdf_file \in fs1
        e_exists == Effect("exists", <<pdf_file>>, exists)
        b_saved == append_text(b0, "PDF report saved to " \o pdf_file \o "\n")
    IN
    IF no_pdf_tool(tool)
    THEN [buffer |-> append_text(b0, "No PDF utility available\n"),
          effects |-> <<>>, files |-> fs]
    ELSE IF ~launched
    THEN [buffer |-> append_text(b0, "Error generating PDF report\n"),
          effects |-> <<e_spawn>>, files |-> fs]
    ELSE IF exists
    THEN [buffer |-> IF opened THEN b_saved
                     ELSE append_text(b_saved,
                                      "Failed to open PDF report: " \o e \o "\n"),
          effects |-> <<e_spawn>> \o e_child
                      \o <<e_exists, Effect("open", <<pdf_uri>>, opened)>>,
          files |-> fs1]
    ELSE [buffer |-> append_text(b0, "PDF report was not generated\n"),
          effects |-> <<e_spawn>> \o e_child \o <<e_exists>>, files |-> fs1]

PdfClicked ==
    /\ ~dialog_open
    /\ btn_pdf_sensitive
    /\ IF project_path # None
       THEN /\ clicks < MaxClicks
            /\ clicks' = clicks + 1
            /\ \E launched \in BOOLEAN, created \in BOOLEAN, opened \in BOOLEAN,
                  e \in GioErrors :
                 /\ (created => launched)
                 /\ LET o == PdfOutcome(project_path[1], pdf_tool, buffer, files,
                                        launched, created, opened, e)
                    IN /\ buffer' = o.buffer
                       /\ files' = o.files
                       /\ Observe("pdf", o.effects)
            /\ UNCHANGED <<env_vars, install_sensitive, project_path, select_label,
                           dialog_open, chk_vars, btn_vars, progress, hist_vars>>
       ELSE NoPath("pdf")

(***************************************************************************)
(* install_btn clicked, lines 127-136.  The button is built only when      *)
(* missing is not empty, line 121.                                         *)
(***************************************************************************)
InstallClicked ==
    /\ ~dialog_open
    /\ missing # <<>>
    /\ install_sensitive
    /\ clicks < MaxClicks
    /\ clicks' = clicks + 1
    /\ \E launched \in BOOLEAN, cap \in Captured :
         LET b0 == append_text(buffer, "Installing missing utilities...\n")
             out == cap[1]
             err == cap[2]
             argv == <<"sudo", "apt-get", "install", "-y">> \o missing
         IN /\ buffer' = IF launched THEN append_text(append_text(b0, out), err)
                         ELSE b0
            /\ Observe("install", <<Effect("spawn", argv, launched)>>)
    /\ install_sensitive' = FALSE
    /\ UNCHANGED <<env_vars, files, project_path, select_label, dialog_open,
                   chk_vars, btn_vars, progress, hist_vars>>

Next ==
    \/ ToggleError
    \/ ToggleWarning
    \/ ToggleStyle
    \/ TogglePerformance
    \/ SelectClicked
    \/ DialogResponse
    \/ RunClicked
    \/ HtmlClicked
    \/ PdfClicked
    \/ InstallClicked

Spec == Init /\ [][Next]_vars


(***************************************************************************)
(* Properties.                                                             *)
(***************************************************************************)
HasEffect(kind) == \E i \in DOMAIN effects : effects[i].kind = kind
HasSpawn(ok) == \E i \in DOMAIN effects : effects[i].kind = "spawn" /\ effects[i].ok = ok

(* The command line the Run action is expected to build, case by case. *)
C1_Expected(w, s, p, path) ==
    CASE w /\ s /\ p -> <<"cppcheck", "--enable=warning,style,performance", path>>
      [] w /\ s /\ ~p -> <<"cppcheck", "--enable=warning,style", path>>
      [] w /\ ~s /\ p -> <<"cppcheck", "--enable=warning,performance", path>>
      [] w /\ ~s /\ ~p -> <<"cppcheck", "--enable=warning", path>>
      [] ~w /\ s /\ p -> <<"cppcheck", "--enable=style,performance", path>>
      [] ~w /\ s /\ ~p -> <<"cppcheck", "--enable=style", path>>
      [] ~w /\ ~s /\ p -> <<"cppcheck", "--enable=performance", path>>
      [] ~w /\ ~s /\ ~p -> <<"cppcheck", path>>

(* C1: whatever the four check buttons are, the one command a Run action   *)
(* with a path selected runs is cppcheck, then an --enable= argument       *)
(* exactly when warning, style or performance is active, listing the       *)
(* active ones comma-joined in the order warning, style, performance, then *)
(* the selected path as the final argument; the error check button has no  *)
(* influence.                                                              *)
C1_EnableArgument ==
    (last_handler = "run" /\ project_path # None) =>
        /\ Len(effects) = 1
        /\ effects[1].kind = "spawn"
        /\ effects[1].argv = C1_Expected(chk_warning, chk_style, chk_performance,
                                         project_path[1])

(* C1 witness: a Run with error and warning switched off, style and        *)
(* performance on.                                                         *)
C1_Witness ==
    /\ last_handler = "run"
    /\ project_path # None
    /\ ~chk_error /\ ~chk_warning /\ chk_style /\ chk_performance

(* C2: after a Run action whose cppcheck launched and completed the HTML   *)
(* and PDF buttons are enabled; after a Run action whose cppcheck failed   *)
(* to launch (and no earlier Run succeeded) they are still disabled.       *)
C2_EnabledOnlyOnSuccess ==
    (last_handler = "run" /\ effects # <<>>) =>
        IF effects[1].ok
        THEN btn_html_sensitive /\ btn_pdf_sensitive
        ELSE ~run_succeeded => (~btn_html_sensitive /\ ~btn_pdf_sensitive)

(* C3: a Run, HTML or PDF activation with no project path selected runs no *)
(* subprocess, writes and opens nothing and appends nothing to the log;    *)
(* the HTML and PDF steps never act while no path is set.                  *)
C3_NoPathNoEffect ==
    /\ (last_handler \in {"run", "html", "pdf"} /\ project_path = None) =>
           (effects = <<>> /\ appended = <<>>)
    /\ (last_handler \in {"html", "pdf"} /\ (effects # <<>> \/ appended # <<>>)) =>
           project_path # None

(* C3 witness: Run was activated with no path selected. *)
C3_Witness == last_handler = "run" /\ project_path = None

(* C4 as claimed: with a path selected and no browser discovered, the PDF  *)
(* action appends exactly "No PDF utility available" and nothing else, and *)
(* does nothing to the outside world.                                      *)
C4_OnlyNoUtilityMessage ==
    (last_handler = "pdf" /\ project_path # None /\ pdf_tool = None) =>
        (appended = <<"No PDF utility available\n">> /\ effects = <<>>)

(* C4 amended: with a path selected and no browser discovered, the PDF     *)
(* action appends "Generating PDF report for <path>" and then "No PDF      *)
(* utility available", nothing else, and runs no subprocess, writes no     *)
(* file and opens nothing.                                                 *)
C4_NoUtilityMessage ==
    (last_handler = "pdf" /\ project_path # None /\ pdf_tool = None) =>
        /\ appended = <<"Generating PDF report for " \o project_path[1] \o "\n",
                        "No PDF utility available\n">>
        /\ effects = <<>>

(* C4 witness: the PDF action ran with no browser discovered. *)
C4_Witness == last_handler = "pdf" /\ project_path # None /\ pdf_tool = None

(* C5: in the PDF action, when the browser launched and returned without   *)
(* creating report.pdf, "PDF report was not generated" is logged and       *)
(* nothing is opened; and nothing is opened unless the existence check     *)
(* made after the browser returned succeeded.                              *)
C5_NoOpenWithoutNewPdf ==
    (last_handler = "pdf" /\ HasSpawn(TRUE)) =>
        /\ ~HasEffect("child_wrote") =>
              /\ \E i \in DOMAIN appended : appended[i] = "PDF report was not generated\n"
              /\ ~HasEffect("open")
        /\ \A i \in DOMAIN effects : effects[i].kind = "open" =>
              \E j \in 1..(i - 1) : effects[j].kind = "exists" /\ effects[j].ok

(* The message of the HTML action's failure site at effect e. *)
C6_Message(e) ==
    IF e.kind = "write" THEN "Failed to write XML report\n"
    ELSE IF e.argv[1] = "cppcheck" THEN "Error running cppcheck --xml\n"
    ELSE "Error generating HTML report\n"

(* C6: in the HTML action a failed launch of cppcheck --xml, a failed      *)
(* write of cppcheck.xml or a failed launch of cppcheck-htmlreport is the  *)
(* last thing the action does (no later stage, no open), and the last log  *)
(* entry is that site's message.                                           *)
C6_HtmlAbortsAtFailure ==
    last_handler = "html" =>
        \A i \in DOMAIN effects :
            (effects[i].kind \in {"spawn", "write"} /\ ~effects[i].ok) =>
                /\ i = Len(effects)
                /\ appended # <<>>
                /\ appended[Len(appended)] = C6_Message(effects[i])

(* C6 witness: an HTML action whose write of cppcheck.xml failed. *)
C6_Witness ==
    /\ last_handler = "html"
    /\ Len(effects) = 2
    /\ effects[2].kind = "write"
    /\ ~effects[2].ok

(* C7: the PDF action invokes the browser only after some HTML action ran  *)
(* to the end, and the HTML action runs its pipeline only after some Run   *)
(* action's cppcheck launched and completed.                               *)
C7_GatedOnPreviousStep ==
    /\ (last_handler = "pdf" /\ HasEffect("spawn")) => html_succeeded
    /\ (last_handler = "html" /\ effects # <<>>) => run_succeeded

(* C8: the HTML button is enabled only if the probe found                  *)
(* cppcheck-htmlreport, the PDF button only if it discovered a browser.    *)
C8_EnabledOnlyIfToolFound ==
    /\ btn_html_sensitive => html_ok
    /\ btn_pdf_sensitive => pdf_tool # None

(* C9: every availability flag is true exactly when the lookup located the *)
(* executable: html_ok, the missing list (the required tools not located,  *)
(* so the installer is offered exactly when one is not) and the PDF tool   *)
(* (the first located of google-chrome, chromium-browser, or none).        *)
C9_FlagIffLocated ==
    /\ html_ok <=> (lookup["cppcheck-htmlreport"] = "found")
    /\ missing = SelectSeq(required, LAMBDA u : lookup[u] # "found")
    /\ pdf_tool = IF lookup["google-chrome"] = "found" THEN <<"google-chrome">>
                  ELSE IF lookup["chromium-browser"] = "found"
                       THEN <<"chromium-browser">>
                       ELSE <<>>

(* C10: the project path starts empty; a dialog response that confirms a   *)
(* directory replaces the project path with the chosen path, any other     *)
(* response leaves it exactly as it was, no other action changes it, and   *)
(* once set it is never empty again.                                       *)
C10_ChosenPathStored ==
    /\ project_path = None
    /\ [][ /\ IF confirmed' # None
              THEN project_path' = confirmed'
              ELSE project_path' = project_path
           /\ project_path # None => project_path' # None ]_vars

====
